---- MODULE Spec2Model ----
(***************************************************************************)
(* Model of runbooks/security/Security-Scan-StoragePII.py.                 *)
(*                                                                         *)
(* Spec     : one awaited call of the coroutine scan_storage_account; the  *)
(*            storage service (container listing, blob listing, blob       *)
(*            properties, blob download) is the environment and may raise  *)
(*            at every call.                                               *)
(* MainSpec : one call of main; the identity provider and the resource     *)
(*            enumeration service are the environment.                     *)
(*                                                                         *)
(* Strings the code only compares or stores are TLA+ strings; strings the  *)
(* code slices (regex matches) are sequences of one-character strings.     *)
(* Python dicts are functions on their key set.  print is modelled for the *)
(* error lines only (variable log).                                       *)
(***************************************************************************)
EXTENDS Integers, Sequences, FiniteSets, TLC

\* ------------------------------------------------------------------ bounds
MaxContainers == 2
MaxDepth == 2
MaxGroups == 2
MaxAccounts == 2
\* a listing can hold one object more than the largest cap and one beyond it
MaxBlobs == MaxDepth + 1

\* bytes per megabyte, lines 100, 104, 118, 127
MB == 1024 * 1024

\* values of the parameter max_size_mb (10 is the default, line 135)
MaxSizeChoices == {1, 10}
\* values of the parameter scan_depth
DepthChoices == 0..MaxDepth
\* sizes the storage service reports for a blob: at the limit, one byte over
\* the limit, and 15 MB
BlobSizes(max_size_mb) == {max_size_mb * MB, max_size_mb * MB + 1, 15 * MB}

\* ------------------------------------------------------- python helpers
Min(a, b) == IF a < b THEN a ELSE b

\* d.get(k, default)
Get(d, k, default) == IF k \in DOMAIN d THEN d[k] ELSE default

\* a mask two characters short of '*' * n
StarsShort(n) == [i \in 1..(IF n > 2 THEN n - 2 ELSE 0) |-> "*"]

\* '*' * n  (an empty string when n <= 0)
Stars(n) == [i \in 1..(IF n > 0 THEN n ELSE 0) |-> "*"]

\* s[-n:]
LastChars(s, n) == IF Len(s) <= n THEN s ELSE SubSeq(s, Len(s) - n + 1, Len(s))

\* s[0:n]
FirstChars(s, n) == SubSeq(s, 1, Min(n, Len(s)))

\* index of the first "@" of s, 0 when there is none
RECURSIVE AtIndex(_, _)
AtIndex(s, i) ==
    IF i > Len(s) THEN 0
    ELSE IF s[i] = "@" THEN i
    ELSE AtIndex(s, i + 1)

\* s.split('@') for a string with at most one "@"
SplitAt(s) ==
    LET k == AtIndex(s, 1)
    IN  IF k = 0 THEN <<s>>
        ELSE <<SubSeq(s, 1, k - 1), SubSeq(s, k + 1, Len(s))>>

\* ----------------------------------------------------- pattern registry
\* the keys of PII_PATTERNS in insertion order
PatternNames ==
    << "SSN", "Credit Card", "Email", "Phone Number", "Passport Number",
       "US Driver License", "IP Address", "AWS Access Key",
       "Azure Connection String" >>

\* whether the pattern's regex has a capturing group: only Phone Number's
\* (\+\d{1,2}\s)? is one, Credit Card's (?:...) is not
HasGroup(pattern_name) == pattern_name = "Phone Number"

\* A text is the sequence of its regex occurrences in order of position:
\* [pattern, raw, group], raw the whole matched substring and group what the
\* pattern's capturing group matched ("" when it did not take part).
\* re.findall returns the group when the pattern has one, else the match.
FindAll(pattern_name, text) ==
    LET occ == SelectSeq(text, LAMBDA o : o.pattern = pattern_name)
    IN  [i \in 1..Len(occ) |->
            IF HasGroup(pattern_name) THEN occ[i].group ELSE occ[i].raw]

\* the redaction of one match, lines 75-85; <<>> stands for "nothing appended"
\* and <<r>> for one redacted string r
Redact(pattern_name, match) ==
    IF pattern_name = "Email"
    THEN LET parts == SplitAt(match)
         IN  IF Len(parts) > 1
             THEN << <<parts[1][1]>> \o Stars(Len(parts[1]) - 2)
                     \o <<parts[1][Len(parts[1])]>> \o <<"@">> \o parts[2] >>
             ELSE <<>>
    ELSE IF pattern_name \in {"SSN", "Credit Card", "Phone Number"}
    THEN << Stars(Len(match) - 4) \o LastChars(match, 4) >>
    ELSE IF Len(match) > 6
    THEN << FirstChars(match, 3) \o Stars(Len(match) - 6) \o LastChars(match, 3) >>
    ELSE << <<match[1]>> \o Stars(Len(match) - 2) \o <<match[Len(match)]>> >>

RECURSIVE RedactAll(_, _)
RedactAll(pattern_name, matches) ==
    IF matches = <<>> THEN <<>>
    ELSE Redact(pattern_name, Head(matches))
         \o RedactAll(pattern_name, Tail(matches))

\* scan_text_for_pii: the findings dict, keyed by the patterns that matched
scan_text_for_pii(text) ==
    LET hit == {i \in 1..Len(PatternNames) : FindAll(PatternNames[i], text) # <<>>}
    IN  [name \in {PatternNames[i] : i \in hit} |->
            LET matches == FindAll(name, text)
                redacted_matches == RedactAll(name, matches)
            IN  [count |-> Len(matches),
                 samples |-> FirstChars(redacted_matches, 3)]]

\* list(d.keys()) of a findings dict: insertion order is PII_PATTERNS order
Keys(findings) == SelectSeq(PatternNames, LAMBDA n : n \in DOMAIN findings)

\* -------------------------------------------------- the regexes, lines 41-51
\* characters of the texts; \d, \s and \b are taken over ASCII, and a blank is
\* the only whitespace character of the texts
Digit == { "0", "1", "2", "3", "4", "5", "6", "7", "8", "9" }
Upper ==
    { "A", "B", "C", "D", "E", "F", "G", "H", "I", "J", "K", "L", "M", "N",
      "O", "P", "Q", "R", "S", "T", "U", "V", "W", "X", "Y", "Z" }
Lower ==
    { "a", "b", "c", "d", "e", "f", "g", "h", "i", "j", "k", "l", "m", "n",
      "o", "p", "q", "r", "s", "t", "u", "v", "w", "x", "y", "z" }
Space == {" "}
\* \w, which decides \b
WordChar == Digit \cup Upper \cup Lower \cup {"_"}

\* regex elements: a character class (or its complement) repeated lo..hi
\* times, greedily (many = no upper limit), the assertion \b, and a run of
\* literal characters
Rep(set, lo, hi) ==
    [kind |-> "class", neg |-> FALSE, set |-> set, lo |-> lo, hi |-> hi, many |-> FALSE]
Plus(set) ==
    [kind |-> "class", neg |-> FALSE, set |-> set, lo |-> 1, hi |-> 1, many |-> TRUE]
AtLeast(set, lo) ==
    [kind |-> "class", neg |-> FALSE, set |-> set, lo |-> lo, hi |-> lo, many |-> TRUE]
PlusNot(set) ==
    [kind |-> "class", neg |-> TRUE, set |-> set, lo |-> 1, hi |-> 1, many |-> TRUE]
WordBoundary ==
    [kind |-> "boundary", neg |-> FALSE, set |-> {}, lo |-> 0, hi |-> 0, many |-> FALSE]
Literal(chars) == [kind |-> "literal", chars |-> chars]

\* [-\s]? and [\s.-]?
DashOrSpace == Rep({"-"} \cup Space, 0, 1)
PhoneSeparator == Rep({".", "-"} \cup Space, 0, 1)

EndpointsLiteral ==
    << "D", "e", "f", "a", "u", "l", "t", "E", "n", "d", "p", "o", "i", "n",
       "t", "s", "P", "r", "o", "t", "o", "c", "o", "l", "=", "h", "t", "t",
       "p", "s", ";", "A", "c", "c", "o", "u", "n", "t", "N", "a", "m", "e",
       "=" >>
AccountKeyLiteral ==
    << ";", "A", "c", "c", "o", "u", "n", "t", "K", "e", "y", "=" >>

\* PII_PATTERNS: for each name the alternatives the regex engine tries in
\* order at one position, each [elems, gfrom, gto]; gfrom..gto are the
\* elements of the capturing group when it takes part (0 when it does not).
\* (?:\d{4}[-\s]?){3} is written out; an optional leading group is the
\* alternative with it, then the alternative without it.
NoGroup(elems) == << [elems |-> elems, gfrom |-> 0, gto |-> 0] >>

PhoneTail ==
    << Rep({"("}, 0, 1), Rep(Digit, 3, 3), Rep({")"}, 0, 1), PhoneSeparator,
       Rep(Digit, 3, 3), PhoneSeparator, Rep(Digit, 4, 4), WordBoundary >>

PII_PATTERNS(name) ==
    CASE name = "SSN" ->
           NoGroup(<< WordBoundary, Rep(Digit, 3, 3), DashOrSpace, Rep(Digit, 2, 2),
                      DashOrSpace, Rep(Digit, 4, 4), WordBoundary >>)
      [] name = "Credit Card" ->
           NoGroup(<< WordBoundary, Rep(Digit, 4, 4), DashOrSpace, Rep(Digit, 4, 4),
                      DashOrSpace, Rep(Digit, 4, 4), DashOrSpace, Rep(Digit, 4, 4),
                      WordBoundary >>)
      [] name = "Email" ->
           NoGroup(<< WordBoundary,
                      Plus(Upper \cup Lower \cup Digit \cup {".", "_", "%", "+", "-"}),
                      Rep({"@"}, 1, 1),
                      Plus(Upper \cup Lower \cup Digit \cup {".", "-"}),
                      Rep({"."}, 1, 1),
                      AtLeast(Upper \cup Lower \cup {"|"}, 2),
                      WordBoundary >>)
      [] name = "Phone Number" ->
           << [elems |-> << WordBoundary, Rep({"+"}, 1, 1), Rep(Digit, 1, 2),
                            Rep(Space, 1, 1) >> \o PhoneTail,
               gfrom |-> 2, gto |-> 4],
              [elems |-> << WordBoundary >> \o PhoneTail, gfrom |-> 0, gto |-> 0] >>
      [] name = "Passport Number" ->
           NoGroup(<< WordBoundary, Rep(Upper, 1, 2), Rep(Digit, 6, 9), WordBoundary >>)
      [] name = "US Driver License" ->
           NoGroup(<< WordBoundary, Rep(Upper, 1, 1), Rep(Digit, 7, 7), WordBoundary >>)
      [] name = "IP Address" ->
           NoGroup(<< WordBoundary, Rep(Digit, 1, 3), Rep({"."}, 1, 1), Rep(Digit, 1, 3),
                      Rep({"."}, 1, 1), Rep(Digit, 1, 3), Rep({"."}, 1, 1),
                      Rep(Digit, 1, 3), WordBoundary >>)
      [] name = "AWS Access Key" ->
           NoGroup(<< WordBoundary, Rep(Upper \cup Digit, 20, 20), WordBoundary >>)
      [] name = "Azure Connection String" ->
           NoGroup(<< Literal(EndpointsLiteral), PlusNot({";"}),
                      Literal(AccountKeyLiteral), PlusNot({";"}),
                      Literal(<< ";" >>) >>)

\* ------------------------------------------------------- the regex engine
IsWord(s, i) == i >= 1 /\ i <= Len(s) /\ s[i] \in WordChar

\* \b between s[pos - 1] and s[pos]
AtBoundary(s, pos) == IsWord(s, pos - 1) # IsWord(s, pos)

InClass(e, c) == IF e.neg THEN c \notin e.set ELSE c \in e.set

\* how many characters from s[pos] on are in the class, at most cap
RECURSIVE Run(_, _, _, _)
Run(e, s, pos, cap) ==
    IF cap = 0 \/ pos > Len(s) \/ ~ InClass(e, s[pos]) THEN 0
    ELSE 1 + Run(e, s, pos + 1, cap - 1)

NoMatch == [ok |-> FALSE, ends |-> <<>>]

\* backtracking match of elems[k..] with s[pos] the next character: the
\* position after each element, for the first success in greedy order
RECURSIVE MatchFrom(_, _, _, _), TryCount(_, _, _, _, _)
MatchFrom(elems, k, s, pos) ==
    IF k > Len(elems) THEN [ok |-> TRUE, ends |-> <<>>]
    ELSE IF elems[k].kind = "boundary"
    THEN IF AtBoundary(s, pos)
         THEN LET r == MatchFrom(elems, k + 1, s, pos)
              IN  IF r.ok THEN [ok |-> TRUE, ends |-> <<pos>> \o r.ends] ELSE NoMatch
         ELSE NoMatch
    ELSE IF elems[k].kind = "literal"
    THEN LET stop == pos + Len(elems[k].chars)
         IN  IF stop - 1 <= Len(s) /\ SubSeq(s, pos, stop - 1) = elems[k].chars
             THEN LET r == MatchFrom(elems, k + 1, s, stop)
                  IN  IF r.ok THEN [ok |-> TRUE, ends |-> <<stop>> \o r.ends]
                      ELSE NoMatch
             ELSE NoMatch
    ELSE TryCount(elems, k, s, pos,
                  Run(elems[k], s, pos,
                      IF elems[k].many THEN Len(s) ELSE elems[k].hi))

TryCount(elems, k, s, pos, n) ==
    IF n < elems[k].lo THEN NoMatch
    ELSE LET r == MatchFrom(elems, k + 1, s, pos + n)
         IN  IF r.ok THEN [ok |-> TRUE, ends |-> <<pos + n>> \o r.ends]
             ELSE TryCount(elems, k, s, pos, n - 1)

\* the match of a pattern that starts at s[pos]: [ok, stop, raw, group]
RECURSIVE MatchAlternatives(_, _, _, _)
MatchAlternatives(alts, a, s, pos) ==
    IF a > Len(alts) THEN [ok |-> FALSE, stop |-> pos, raw |-> <<>>, group |-> <<>>]
    ELSE LET r == MatchFrom(alts[a].elems, 1, s, pos)
         IN  IF r.ok
             THEN [ok |-> TRUE,
                   stop |-> r.ends[Len(r.ends)],
                   raw |-> SubSeq(s, pos, r.ends[Len(r.ends)] - 1),
                   group |-> IF alts[a].gfrom = 0 THEN <<>>
                             ELSE SubSeq(s, r.ends[alts[a].gfrom - 1],
                                         r.ends[alts[a].gto] - 1)]
             ELSE MatchAlternatives(alts, a + 1, s, pos)

\* the non-overlapping matches of one pattern in s, left to right
RECURSIVE ScanFrom(_, _, _)
ScanFrom(name, s, pos) ==
    IF pos > Len(s) THEN <<>>
    ELSE LET m == MatchAlternatives(PII_PATTERNS(name), 1, s, pos)
         IN  IF m.ok
             THEN << [pattern |-> name, raw |-> m.raw, group |-> m.group] >>
                  \o ScanFrom(name, s, m.stop)
             ELSE ScanFrom(name, s, pos + 1)

\* every pattern's occurrences in the string s
RECURSIVE OccurrencesFrom(_, _)
OccurrencesFrom(s, i) ==
    IF i > Len(PatternNames) THEN <<>>
    ELSE ScanFrom(PatternNames[i], s, 1) \o OccurrencesFrom(s, i + 1)

Occurrences(s) == OccurrencesFrom(s, 1)

\* ------------------------------------------------------------- contents
SsnRaw == <<"1", "2", "3", "-", "4", "5", "-", "6", "7", "8", "9">>
CleanText == <<>>
SsnText == << [pattern |-> "SSN", raw |-> SsnRaw, group |-> <<>>] >>

\* what readall can return: bytes that are valid UTF-8 (with their text) or not
BlobContents ==
    { [utf8 |-> TRUE, text |-> CleanText],
      [utf8 |-> TRUE, text |-> SsnText],
      [utf8 |-> FALSE, text |-> CleanText] }


\* ---------------------------------------------------------------- state
VARIABLES
    \* scan_storage_account: parameters and locals
    max_size_mb, scan_depth, pc, results, container_results, scan_count,
    scan_result, exc, ret,
    \* scan_blob: locals of the call in progress (kept until the next call)
    properties, content,
    \* the storage service: containers and blobs its listings have yielded
    cidx, bidx,
    \* observation: blobs handed to scan_blob in this container; collaborator
    \* calls of the latest scan_blob call that reached its first call, ending
    \* with "raised" when the last one raised; every container_results dict
    \* created so far
    examined, trace, produced,
    \* standard output (error lines)
    log,
    \* main: parameters, position, locals, result
    mpc, resource_group_names, rg_i, acct_i, all_results, scan_results,
    mexc, mret,
    \* scan_text_for_pii: argument, position, result; observation: every
    \* match handed to the redaction with what it appended
    text, spc, findings, redactions,
    \* generate_tasks: parameters, position, locals, exception
    total_points, num_tasks, task_points_min, tpc, base_points_per_task,
    remainder, task_i, tasks, points_assigned, terr

acctVars ==
    << max_size_mb, scan_depth, pc, results, container_results, scan_count,
       scan_result, exc, ret, properties, content, cidx, bidx, examined,
       trace, produced >>

mainVars ==
    << mpc, resource_group_names, rg_i, acct_i, all_results, scan_results,
       mexc, mret >>

scanVars == << text, spc, findings, redactions >>

taskVars ==
    << total_points, num_tasks, task_points_min, tpc, base_points_per_task,
       remainder, task_i, tasks, points_assigned, terr >>

vars == << acctVars, log, mainVars, scanVars, taskVars >>

\* ------------------------------------------------- values of the locals
\* a local that is not bound yet
Unbound == [unbound |-> TRUE]

\* properties.size / (1024 * 1024): true division, kept as a fraction
SizeMb(size) == [num |-> size, den |-> MB]

\* the results dict of lines 137-145
NewResults(account_name, resource_group) ==
    [ storage_account |-> account_name,
      resource_group |-> resource_group,
      scan_time |-> "now",
      containers_scanned |-> 0,
      blobs_scanned |-> 0,
      pii_found_count |-> 0,
      pii_findings |-> <<>> ]

\* the container_results dict of lines 159-164
NewContainerResults(name) ==
    [ container_name |-> name,
      blobs_scanned |-> 0,
      blobs_with_pii |-> 0,
      findings |-> <<>> ]

\* the three dicts scan_blob returns without scanning, and the one it returns
\* after scanning
TooLargeOutcome(size) ==
    [scanned |-> FALSE, reason |-> "File too large", size_mb |-> SizeMb(size)]

NotTextOutcome(size) ==
    [scanned |-> FALSE, reason |-> "Not a text file", size_mb |-> SizeMb(size)]

ErrorOutcome(e) ==
    [scanned |-> FALSE, reason |-> <<"Error: ", e>>]

ScannedOutcomeFlagged(size, pii_findings) ==
    [ scanned |-> TRUE,
      size_mb |-> SizeMb(size),
      findings |-> pii_findings,
      has_pii |-> TRUE ]

ScannedOutcome(size, pii_findings) ==
    [ scanned |-> TRUE,
      size_mb |-> SizeMb(size),
      findings |-> pii_findings,
      has_pii |-> Cardinality(DOMAIN pii_findings) > 0 ]

\* line 100: properties.size > (max_size_mb * 1024 * 1024)
ExceedsLimitFloor(size, limit_mb) == (size \div MB) > limit_mb
ExceedsLimit(size, limit_mb) == size > limit_mb * MB

\* line 113: content.decode('utf-8'); ok = FALSE is UnicodeDecodeError
DecodeIgnoringErrors(bytes) == [ok |-> TRUE, text |-> bytes.text]
Decode(bytes) == [ok |-> bytes.utf8, text |-> bytes.text]

\* lines 129-133: where an exception raised inside scan_blob goes, and what
\* the caller gets ("tally" is line 179 of the caller, "except" line 204)
ErrorPropagates(e) == [pc |-> "except", scan_result |-> Unbound, exc |-> e]
OnBlobError(e) == [pc |-> "tally", scan_result |-> ErrorOutcome(e), exc |-> "none"]

\* line 173: the cap test
CapReachedAfter(count, depth) == count > depth
CapReached(count, depth) == count >= depth

\* lines 179-194: container_results after one scan_result
TallyContainerElif(cr, blob_name, sr) ==
    IF Get(sr, "has_pii", FALSE)
    THEN [cr EXCEPT !.blobs_with_pii = @ + 1]
    ELSE IF Get(sr, "scanned", FALSE)
    THEN [cr EXCEPT !.blobs_scanned = @ + 1]
    ELSE cr
TallyContainer(cr, blob_name, sr) ==
    IF Get(sr, "scanned", FALSE)
    THEN IF Get(sr, "has_pii", FALSE)
         THEN [cr EXCEPT
                 !.blobs_scanned = @ + 1,
                 !.blobs_with_pii = @ + 1,
                 !.findings = Append(@,
                     [ blob_name |-> blob_name,
                       size_mb |-> Get(sr, "size_mb", 0),
                       pii_types |-> Keys(Get(sr, "findings", <<>>)),
                       details |-> Get(sr, "findings", <<>>) ])]
         ELSE [cr EXCEPT !.blobs_scanned = @ + 1]
    ELSE cr

\* lines 179-185: the account's results after one scan_result
TallyAccountPerScan(res, sr) ==
    IF Get(sr, "scanned", FALSE)
    THEN [res EXCEPT !.blobs_scanned = @ + 1, !.pii_found_count = @ + 1]
    ELSE res
TallyAccount(res, sr) ==
    IF Get(sr, "scanned", FALSE)
    THEN IF Get(sr, "has_pii", FALSE)
         THEN [res EXCEPT !.blobs_scanned = @ + 1, !.pii_found_count = @ + 1]
         ELSE [res EXCEPT !.blobs_scanned = @ + 1]
    ELSE res

\* lines 198-202: the account's results after a container's walk
CloseContainerAlways(res, cr) ==
    [res EXCEPT !.containers_scanned = @ + 1,
                !.pii_findings = Append(@, cr)]
CloseContainer(res, cr) ==
    IF cr.blobs_with_pii > 0
    THEN [res EXCEPT !.containers_scanned = @ + 1,
                     !.pii_findings = Append(@, cr)]
    ELSE [res EXCEPT !.containers_scanned = @ + 1]

\* the observation of a container_results dict
Observed(cr, walked) ==
    [container_name |-> cr.container_name,
     blobs_with_pii |-> cr.blobs_with_pii,
     walked |-> walked]

SetLast(seq, x) == [seq EXCEPT ![Len(seq)] = x]


\* ------------------------------------- scan_storage_account, lines 135-207
\* the parameters max_size_mb and scan_depth at their defaults, line 135
DefaultLimits ==
    /\ max_size_mb = 10
    /\ scan_depth = 100

\* scan_text_for_pii's variables while no separate call of it is running
ScanIdle ==
    /\ text = <<>>
    /\ spc = "idle"
    /\ findings = Unbound
    /\ redactions = <<>>

\* generate_tasks's variables while it is not running
TaskIdle ==
    /\ total_points = 0
    /\ num_tasks = 0
    /\ task_points_min = <<>>
    /\ tpc = "idle"
    /\ base_points_per_task = 0
    /\ remainder = 0
    /\ task_i = 0
    /\ tasks = <<>>
    /\ points_assigned = 0
    /\ terr = "none"

\* main's variables while main is not running
MainIdle ==
    /\ mpc = "idle"
    /\ resource_group_names = <<>>
    /\ rg_i = 0
    /\ acct_i = 0
    /\ all_results = <<>>
    /\ scan_results = Unbound
    /\ mexc = "none"
    /\ mret = Unbound

\* the coroutine's frame at its first statement
AcctEntry(limit_mb, depth) ==
    /\ max_size_mb = limit_mb
    /\ scan_depth = depth
    /\ pc = "list_containers"
    /\ results = NewResults("account", "rg")
    /\ container_results = Unbound
    /\ scan_count = 0
    /\ scan_result = Unbound
    /\ exc = "none"
    /\ ret = Unbound
    /\ properties = Unbound
    /\ content = Unbound
    /\ cidx = 0
    /\ bidx = 0
    /\ examined = <<>>
    /\ trace = <<>>
    /\ produced = <<>>

Init ==
    /\ \E limit_mb \in MaxSizeChoices, depth \in DepthChoices :
           AcctEntry(limit_mb, depth)
    /\ log = <<>>
    /\ MainIdle
    /\ ScanIdle
    /\ TaskIdle

\* an exception leaves the try block of lines 153-202
Raise(e) ==
    /\ pc' = "except"
    /\ exc' = e

\* line 155: blob_service.list_containers()
ListContainers ==
    /\ pc = "list_containers"
    /\ \/ /\ pc' = "for_container"
          /\ exc' = exc
       \/ Raise("list_containers failed")
    /\ UNCHANGED << max_size_mb, scan_depth, results, container_results,
                    scan_count, scan_result, ret, properties, content, cidx,
                    bidx, examined, trace, produced, log, mainVars, scanVars, taskVars >>

\* lines 157-170: the container listing yields one more container
ForContainerYield ==
    /\ pc = "for_container"
    /\ cidx < MaxContainers
    /\ cidx' = cidx + 1
    /\ container_results' = NewContainerResults(cidx + 1)
    /\ produced' = Append(produced, Observed(NewContainerResults(cidx + 1), FALSE))
    /\ scan_count' = 0
    /\ bidx' = 0
    /\ examined' = <<>>
    /\ pc' = "for_blob"
    /\ UNCHANGED << max_size_mb, scan_depth, results, scan_result, exc, ret,
                    properties, content, trace, log, mainVars, scanVars, taskVars >>

\* line 157: the container listing is exhausted
ForContainerEnd ==
    /\ pc = "for_container"
    /\ pc' = "return"
    /\ UNCHANGED << max_size_mb, scan_depth, results, container_results,
                    scan_count, scan_result, exc, ret, properties, content,
                    cidx, bidx, examined, trace, produced, log, mainVars, scanVars, taskVars >>

\* line 157: the container listing raises
ForContainerRaise ==
    /\ pc = "for_container"
    /\ Raise("container listing failed")
    /\ UNCHANGED << max_size_mb, scan_depth, results, container_results,
                    scan_count, scan_result, ret, properties, content, cidx,
                    bidx, examined, trace, produced, log, mainVars, scanVars, taskVars >>

\* lines 172-177: the blob listing yields one more blob; past the cap the loop
\* breaks, else scan_blob is called with the blob
ForBlobYield ==
    /\ pc = "for_blob"
    /\ bidx < MaxBlobs
    /\ bidx' = bidx + 1
    /\ IF CapReached(scan_count, scan_depth)
       THEN /\ pc' = "container_done"
            /\ UNCHANGED << examined, properties, content >>
       ELSE /\ pc' = "props"
            /\ examined' = Append(examined, bidx + 1)
            /\ properties' = Unbound
            /\ content' = Unbound
    /\ UNCHANGED << max_size_mb, scan_depth, results, container_results,
                    scan_count, scan_result, exc, ret, cidx, trace, produced,
                    log, mainVars, scanVars, taskVars >>

\* line 172: the blob listing is exhausted
ForBlobEnd ==
    /\ pc = "for_blob"
    /\ pc' = "container_done"
    /\ UNCHANGED << max_size_mb, scan_depth, results, container_results,
                    scan_count, scan_result, exc, ret, properties, content,
                    cidx, bidx, examined, trace, produced, log, mainVars, scanVars, taskVars >>

\* line 172: the blob listing raises
ForBlobRaise ==
    /\ pc = "for_blob"
    /\ Raise("blob listing failed")
    /\ UNCHANGED << max_size_mb, scan_depth, results, container_results,
                    scan_count, scan_result, ret, properties, content, cidx,
                    bidx, examined, trace, produced, log, mainVars, scanVars, taskVars >>

\* an exception inside scan_blob's try block, lines 96-133
BlobError(e) ==
    /\ pc' = OnBlobError(e).pc
    /\ scan_result' = OnBlobError(e).scan_result
    /\ exc' = OnBlobError(e).exc

\* lines 97-105: get_blob_properties, then the size test
GetBlobProperties ==
    /\ pc = "props"
    /\ \/ \E size \in BlobSizes(max_size_mb) :
             /\ trace' = <<"get_blob_properties">>
             /\ properties' = [size |-> size]
             /\ IF ExceedsLimit(size, max_size_mb)
                THEN /\ scan_result' = TooLargeOutcome(size)
                     /\ pc' = "tally"
                ELSE /\ scan_result' = scan_result
                     /\ pc' = "download"
             /\ exc' = exc
       \/ /\ trace' = <<"get_blob_properties", "raised">>
          /\ BlobError("get_blob_properties failed")
          /\ properties' = properties
    /\ UNCHANGED << max_size_mb, scan_depth, results, container_results,
                    scan_count, ret, content, cidx, bidx, examined, produced,
                    log, mainVars, scanVars, taskVars >>

\* line 108: download_blob
DownloadBlob ==
    /\ pc = "download"
    /\ \/ /\ trace' = Append(trace, "download_blob")
          /\ pc' = "readall"
          /\ UNCHANGED << scan_result, exc >>
       \/ /\ trace' = trace \o <<"download_blob", "raised">>
          /\ BlobError("download_blob failed")
    /\ UNCHANGED << max_size_mb, scan_depth, results, container_results,
                    scan_count, ret, properties, content, cidx, bidx, examined,
                    produced, log, mainVars, scanVars, taskVars >>

\* line 109: readall
ReadAll ==
    /\ pc = "readall"
    /\ \/ /\ trace' = Append(trace, "readall")
          /\ \E bytes \in BlobContents : content' = bytes
          /\ pc' = "decode"
          /\ UNCHANGED << scan_result, exc >>
       \/ /\ trace' = trace \o <<"readall", "raised">>
          /\ BlobError("readall failed")
          /\ content' = content
    /\ UNCHANGED << max_size_mb, scan_depth, results, container_results,
                    scan_count, ret, properties, cidx, bidx, examined,
                    produced, log, mainVars, scanVars, taskVars >>

\* lines 112-128: decode, scan the text, build the outcome
DecodeAndScan ==
    /\ pc = "decode"
    /\ IF Decode(content).ok
       THEN /\ trace' = Append(trace, "scan_text_for_pii")
            /\ scan_result' = ScannedOutcome(properties.size,
                                  scan_text_for_pii(Decode(content).text))
       ELSE /\ trace' = trace
            /\ scan_result' = NotTextOutcome(properties.size)
    /\ pc' = "tally"
    /\ UNCHANGED << max_size_mb, scan_depth, results, container_results,
                    scan_count, exc, ret, properties, content, cidx, bidx,
                    examined, produced, log, mainVars, scanVars, taskVars >>

\* lines 179-196: count the outcome of the blob just scanned
Tally ==
    /\ pc = "tally"
    /\ container_results' =
           TallyContainer(container_results, examined[Len(examined)], scan_result)
    /\ results' = TallyAccount(results, scan_result)
    /\ produced' = SetLast(produced, Observed(container_results', FALSE))
    /\ scan_count' = scan_count + 1
    /\ pc' = "for_blob"
    /\ UNCHANGED << max_size_mb, scan_depth, scan_result, exc, ret, properties,
                    content, cidx, bidx, examined, trace, log, mainVars, scanVars, taskVars >>

\* lines 198-202: the container's walk ended (exhausted or cap)
ContainerDone ==
    /\ pc = "container_done"
    /\ results' = CloseContainer(results, container_results)
    /\ produced' = SetLast(produced, Observed(container_results, TRUE))
    /\ pc' = "for_container"
    /\ UNCHANGED << max_size_mb, scan_depth, container_results, scan_count,
                    scan_result, exc, ret, properties, content, cidx, bidx,
                    examined, trace, log, mainVars, scanVars, taskVars >>

\* lines 204-205: the account's handler prints the error
Except ==
    /\ pc = "except"
    /\ log' = Append(log, <<"Error scanning storage account ", exc>>)
    /\ pc' = "return"
    /\ UNCHANGED << max_size_mb, scan_depth, results, container_results,
                    scan_count, scan_result, exc, ret, properties, content,
                    cidx, bidx, examined, trace, produced, mainVars, scanVars, taskVars >>

\* line 207: return results
Return ==
    /\ pc = "return"
    /\ ret' = results
    /\ pc' = "returned"
    /\ UNCHANGED << max_size_mb, scan_depth, results, container_results,
                    scan_count, scan_result, exc, properties, content, cidx,
                    bidx, examined, trace, produced, log, mainVars, scanVars, taskVars >>

Next ==
    \/ ListContainers
    \/ ForContainerYield
    \/ ForContainerEnd
    \/ ForContainerRaise
    \/ ForBlobYield
    \/ ForBlobEnd
    \/ ForBlobRaise
    \/ GetBlobProperties
    \/ DownloadBlob
    \/ ReadAll
    \/ DecodeAndScan
    \/ Tally
    \/ ContainerDone
    \/ Except
    \/ Return

Spec == Init /\ [][Next]_vars


\* ------------------------------------------------------ main, lines 209-314
\* scan_storage_account's variables while no call of it is running
AcctIdle ==
    /\ pc = "not_started"
    /\ results = Unbound
    /\ container_results = Unbound
    /\ scan_count = 0
    /\ scan_result = Unbound
    /\ exc = "none"
    /\ ret = Unbound
    /\ properties = Unbound
    /\ content = Unbound
    /\ cidx = 0
    /\ bidx = 0
    /\ examined = <<>>
    /\ trace = <<>>
    /\ produced = <<>>

\* the values of the parameter resource_group_names: [] (or None) and lists
GroupLists == {[i \in 1..n |-> i] : n \in 0..MaxGroups}

\* main's frame at its first statement; max_size_mb and scan_depth hold the
\* parameters max_scan_size_mb and scan_depth it passes on (lines 258-259)
MainInit ==
    /\ max_size_mb \in MaxSizeChoices
    /\ scan_depth \in DepthChoices
    /\ resource_group_names \in GroupLists
    /\ mpc = "start"
    /\ rg_i = 0
    /\ acct_i = 0
    /\ all_results = <<>>
    /\ scan_results = Unbound
    /\ mexc = "none"
    /\ mret = Unbound
    /\ log = <<>>
    /\ AcctIdle
    /\ ScanIdle
    /\ TaskIdle

\* the failures the specification calls fatal: credential acquisition
\* (lines 223-224), listing a group's accounts (lines 244-246), retrieving an
\* account's keys (lines 250-251)
CredentialFailures == {"get_automation_runas_credential failed",
                       "KeyError: AZURE_SUBSCRIPTION_ID"}
AccountListFailures == {"list_by_resource_group failed"}
KeyFailures == {"list_keys failed", "IndexError: keys"}
FatalFailures == CredentialFailures \cup AccountListFailures \cup KeyFailures

NotSubscriptable == "TypeError: 'coroutine' object is not subscriptable"

\* an exception leaves the try block of lines 221-309
MainRaise(e) ==
    /\ mpc' = "except"
    /\ mexc' = e

\* lines 214-216: an empty resource_group_names is replaced by
\* get_automation_vars(), which returns the variable's list or, after
\* printing the error, [] (lines 57-63)
MStart ==
    /\ mpc = "start"
    /\ IF resource_group_names = <<>>
       THEN \/ /\ resource_group_names' \in GroupLists
               /\ log' = log
            \/ /\ resource_group_names' = <<>>
               /\ log' = Append(log, <<"Error getting automation variables: ",
                                       "get_automation_variable failed">>)
       ELSE UNCHANGED << resource_group_names, log >>
    /\ mpc' = "credentials"
    /\ UNCHANGED << scanVars, taskVars, acctVars, rg_i, acct_i, all_results, scan_results, mexc, mret >>

\* lines 223-238: credential, subscription id, clients, all_results = []
MCredentials ==
    /\ mpc = "credentials"
    /\ \/ /\ mpc' = "for_group"
          /\ mexc' = mexc
          /\ all_results' = <<>>
       \/ /\ \E e \in CredentialFailures : MainRaise(e)
          /\ all_results' = all_results
    /\ UNCHANGED << scanVars, taskVars, acctVars, log, resource_group_names, rg_i, acct_i,
                    scan_results, mret >>

\* lines 240-244: the next resource group, or the end of the list
MForGroup ==
    /\ mpc = "for_group"
    /\ IF rg_i < Len(resource_group_names)
       THEN /\ rg_i' = rg_i + 1
            /\ acct_i' = 0
            /\ mpc' = "for_account"
       ELSE /\ mpc' = "summary"
            /\ UNCHANGED << rg_i, acct_i >>
    /\ UNCHANGED << scanVars, taskVars, acctVars, log, resource_group_names, all_results,
                    scan_results, mexc, mret >>

\* lines 246-247: the account listing yields one more account
MForAccountYield ==
    /\ mpc = "for_account"
    /\ acct_i < MaxAccounts
    /\ acct_i' = acct_i + 1
    /\ mpc' = "list_keys"
    /\ UNCHANGED << scanVars, taskVars, acctVars, log, resource_group_names, rg_i, all_results,
                    scan_results, mexc, mret >>

\* line 246: the account listing is exhausted
MForAccountEnd ==
    /\ mpc = "for_account"
    /\ mpc' = "for_group"
    /\ UNCHANGED << scanVars, taskVars, acctVars, log, resource_group_names, rg_i, acct_i,
                    all_results, scan_results, mexc, mret >>

\* line 246: the account listing raises
MForAccountRaise ==
    /\ mpc = "for_account"
    /\ \E e \in AccountListFailures : MainRaise(e)
    /\ UNCHANGED << scanVars, taskVars, acctVars, log, resource_group_names, rg_i, acct_i,
                    all_results, scan_results, mret >>

\* lines 250-251: list_keys and keys.keys[0].value
MListKeys ==
    /\ mpc = "list_keys"
    /\ \/ /\ mpc' = "call_scan"
          /\ mexc' = mexc
       \/ \E e \in KeyFailures : MainRaise(e)
    /\ UNCHANGED << scanVars, taskVars, acctVars, log, resource_group_names, rg_i, acct_i,
                    all_results, scan_results, mret >>

\* lines 254-260: scan_storage_account is declared async def (line 135) and
\* is called without await from the plain function main: the call returns a
\* coroutine object and runs nothing of the body
CallScanStorageAccount(account_name, resource_group, limit_mb, depth) ==
    [kind |-> "coroutine",
     args |-> <<account_name, resource_group, limit_mb, depth>>]

\* lines 254-262: the call and all_results.append
MCallScan ==
    /\ mpc = "call_scan"
    /\ scan_results' = CallScanStorageAccount(<<rg_i, acct_i>>, rg_i,
                                              max_size_mb, scan_depth)
    /\ all_results' = Append(all_results, scan_results')
    /\ mpc' = "print_account"
    /\ UNCHANGED << scanVars, taskVars, acctVars, log, resource_group_names, rg_i, acct_i, mexc, mret >>

\* obj[key] is defined for a dict only
Subscriptable(obj) == obj.kind = "dict"

\* lines 265-278: scan_results['containers_scanned'] and the other prints
MPrintAccount ==
    /\ mpc = "print_account"
    /\ IF Subscriptable(scan_results)
       THEN /\ mpc' = "for_account"
            /\ mexc' = mexc
       ELSE MainRaise(NotSubscriptable)
    /\ UNCHANGED << scanVars, taskVars, acctVars, log, resource_group_names, rg_i, acct_i,
                    all_results, scan_results, mret >>

RECURSIVE SumField(_, _)
SumField(seq, key) ==
    IF seq = <<>> THEN 0 ELSE Head(seq).value[key] + SumField(Tail(seq), key)

\* lines 281-285 and 300-309: the returned dict
Summarise(results_list) ==
    [ summary |->
        [ storage_accounts_scanned |-> Len(results_list),
          containers_scanned |-> SumField(results_list, "containers_scanned"),
          blobs_scanned |-> SumField(results_list, "blobs_scanned"),
          blobs_with_pii |-> SumField(results_list, "pii_found_count"),
          storage_accounts_with_pii |->
              Len(SelectSeq(results_list,
                            LAMBDA r : r.value["pii_found_count"] > 0)) ],
      detailed_results |-> results_list ]

\* lines 281-309: the summary over all_results and the return
MSummary ==
    /\ mpc = "summary"
    /\ IF \A i \in DOMAIN all_results : Subscriptable(all_results[i])
       THEN /\ mret' = Summarise(all_results)
            /\ mpc' = "returned"
            /\ mexc' = mexc
       ELSE /\ MainRaise(NotSubscriptable)
            /\ mret' = mret
    /\ UNCHANGED << scanVars, taskVars, acctVars, log, resource_group_names, rg_i, acct_i,
                    all_results, scan_results >>

\* line 314: where main's handler leaves main
AfterHandlerSwallow == "summary"
AfterHandler == "raised"

\* lines 311-314: print the error and raise
MExcept ==
    /\ mpc = "except"
    /\ log' = Append(log, <<"Error in PII scan: ", mexc>>)
    /\ mpc' = AfterHandler
    /\ UNCHANGED << scanVars, taskVars, acctVars, resource_group_names, rg_i, acct_i, all_results,
                    scan_results, mexc, mret >>

MainNext ==
    \/ MStart
    \/ MCredentials
    \/ MForGroup
    \/ MForAccountYield
    \/ MForAccountEnd
    \/ MForAccountRaise
    \/ MListKeys
    \/ MCallScan
    \/ MPrintAccount
    \/ MSummary
    \/ MExcept

MainSpec == MainInit /\ [][MainNext]_vars

\* -------------------------------------------- scan_text_for_pii, lines 65-92
\* the texts scanned
\* Scenario 2 of the specification
SsnScenario ==
    << "S", "S", "N", ":", " ", "1", "2", "3", "-", "4", "5", "-", "6", "7",
       "8", "9" >>
\* Scenario 1 of the specification
EmailScenario ==
    << "C", "o", "n", "t", "a", "c", "t", " ", "m", "e", " ", "a", "t", " ",
       "j", "o", "h", "n", ".", "d", "o", "e", "@", "e", "x", "a", "m", "p",
       "l", "e", ".", "c", "o", "m" >>
\* an Email whose local part has 1 character
EmailOneChar ==
    << "a", "@", "b", ".", "c", "o" >>
\* an Email whose local part has 2 characters
EmailTwoChars ==
    << "a", "b", "@", "b", ".", "c", "o" >>
\* four matches of one pattern
FourEmails ==
    << "c", "@", "d", ".", "o", "r", "g", " ", "e", ".", "f", "@", "g", ".",
       "n", "e", "t", " ", "h", "i", "@", "j", ".", "i", "o", " ", "k", "l",
       "m", "@", "n", ".", "u", "k" >>
\* a Phone Number without country code
PhonePlain ==
    << "5", "5", "5", "-", "1", "2", "3", "-", "4", "5", "6", "7" >>
\* a Phone Number whose country code group takes part (\b before +)
PhoneCountry ==
    << "x", "+", "1", " ", "5", "5", "5", "-", "1", "2", "3", "-", "4", "5",
       "6", "7" >>
\* an SSN without separators
SsnPlain ==
    << "1", "2", "3", "4", "5", "6", "7", "8", "9" >>
\* a Credit Card
CardNumber ==
    << "4", "1", "1", "1", " ", "1", "1", "1", "1", " ", "1", "1", "1", "1",
       " ", "1", "1", "1", "1" >>
\* a Passport Number
Passport ==
    << "A", "B", "1", "2", "3", "4", "5", "6", "7" >>
\* a US Driver License, also a Passport Number
License ==
    << "A", "1", "2", "3", "4", "5", "6", "7" >>
\* an IP Address of 8 characters
IpAddress ==
    << "1", "0", ".", "0", ".", "0", ".", "1" >>
\* no match
NoPii ==
    << "h", "e", "l", "l", "o" >>

Fragments ==
    { SsnScenario, EmailScenario, EmailOneChar, EmailTwoChars,
      FourEmails, PhonePlain, PhoneCountry, SsnPlain,
      CardNumber, Passport, License, IpAddress,
      NoPii }

\* a fragment, or two of them with a blank between
Texts == Fragments \cup {f \o << " " >> \o g : f, g \in Fragments}

ScanInit ==
    /\ text \in Texts
    /\ spc = "call"
    /\ findings = Unbound
    /\ redactions = <<>>
    /\ log = <<>>
    /\ DefaultLimits
    /\ AcctIdle
    /\ MainIdle
    /\ TaskIdle

\* lines 74-85 for the matches of one pattern: each match with what the
\* redaction appended for it
MatchLog(pattern_name, matches) ==
    [i \in 1..Len(matches) |->
        [pattern |-> pattern_name,
         match |-> matches[i],
         out |-> Redact(pattern_name, matches[i])]]

\* lines 69-85 over PII_PATTERNS.items()
RECURSIVE AllRedactions(_, _)
AllRedactions(occ, i) ==
    IF i > Len(PatternNames) THEN <<>>
    ELSE MatchLog(PatternNames[i], FindAll(PatternNames[i], occ))
         \o AllRedactions(occ, i + 1)

\* lines 65-92: one call of scan_text_for_pii
ScanText ==
    /\ spc = "call"
    /\ findings' = scan_text_for_pii(Occurrences(text))
    /\ redactions' = AllRedactions(Occurrences(text), 1)
    /\ spc' = "returned"
    /\ UNCHANGED << text, log, acctVars, mainVars, taskVars >>

ScanNext == ScanText

ScanSpec == ScanInit /\ [][ScanNext]_vars

\* ------------------------------------------------------ generate_tasks
\* the largest total_points and num_tasks of a call
MaxPoints == 6
MaxTasks == 4

\* task_points_min: None (the empty sequence) or a number in a sequence
NoMinimum == <<>>
MinimumChoices == {NoMinimum} \cup {<< n >> : n \in 1..(MaxPoints + 1)}

\* a call generate_tasks(total_points, num_tasks, task_points_min)
TaskInit ==
    /\ total_points \in 1..MaxPoints
    /\ num_tasks \in 1..MaxTasks
    /\ task_points_min \in MinimumChoices
    /\ tpc = "adjust"
    /\ base_points_per_task = 0
    /\ remainder = 0
    /\ task_i = 0
    /\ tasks = <<>>
    /\ points_assigned = 0
    /\ terr = "none"
    /\ log = <<>>
    /\ DefaultLimits
    /\ AcctIdle
    /\ MainIdle
    /\ ScanIdle

\* line 25: total_points // task_points_min
MaxTasksFor(points, minimum) == points \div minimum

\* lines 24-29: fewer tasks when the minimum per task asks for it
AdjustNumTasks ==
    /\ tpc = "adjust"
    /\ IF task_points_min # NoMinimum
          /\ MaxTasksFor(total_points, task_points_min[1]) < num_tasks
       THEN /\ num_tasks' = MaxTasksFor(total_points, task_points_min[1])
            /\ log' = Append(log, <<"Warning: Reducing number of tasks from ",
                                    num_tasks, " to ", num_tasks'>>)
       ELSE UNCHANGED << num_tasks, log >>
    /\ tpc' = "divide"
    /\ UNCHANGED << total_points, task_points_min, base_points_per_task,
                    remainder, task_i, tasks, points_assigned, terr,
                    acctVars, mainVars, scanVars >>

\* lines 32-36: the split, and the empty task list
Divide ==
    /\ tpc = "divide"
    /\ num_tasks # 0
    /\ base_points_per_task' = total_points \div num_tasks
    /\ remainder' = total_points % num_tasks
    /\ tasks' = <<>>
    /\ points_assigned' = 0
    /\ task_i' = 0
    /\ tpc' = "loop"
    /\ UNCHANGED << total_points, num_tasks, task_points_min, terr, log,
                    acctVars, mainVars, scanVars >>

\* line 32 with num_tasks = 0: total_points // 0 raises, nothing catches it
DivideByZero ==
    /\ tpc = "divide"
    /\ num_tasks = 0
    /\ terr' = "ZeroDivisionError"
    /\ tpc' = "raised"
    /\ UNCHANGED << total_points, num_tasks, task_points_min,
                    base_points_per_task, remainder, task_i, tasks,
                    points_assigned, log, acctVars, mainVars, scanVars >>

\* line 40: the points of task i (i counts from 0)
TaskPoints(i, base, rem) == base + (IF i < rem THEN 1 ELSE 0)

\* lines 38-85: one pass of the loop over range(num_tasks); of a task the
\* number of its id (i + 1) and the points of its command line are kept
AppendTask ==
    /\ tpc = "loop"
    /\ task_i < num_tasks
    /\ LET task_points == TaskPoints(task_i, base_points_per_task, remainder)
       IN  /\ tasks' = Append(tasks, [id |-> task_i + 1, points |-> task_points])
           /\ points_assigned' = points_assigned + task_points
    /\ task_i' = task_i + 1
    /\ UNCHANGED << total_points, num_tasks, task_points_min, tpc,
                    base_points_per_task, remainder, terr, log,
                    acctVars, mainVars, scanVars >>

\* lines 87-89: after the loop, the assertion and the return
AssertAndReturn ==
    /\ tpc = "loop"
    /\ task_i >= num_tasks
    /\ IF points_assigned = total_points
       THEN tpc' = "returned" /\ terr' = terr
       ELSE tpc' = "raised" /\ terr' = "AssertionError"
    /\ UNCHANGED << total_points, num_tasks, task_points_min,
                    base_points_per_task, remainder, task_i, tasks,
                    points_assigned, log, acctVars, mainVars, scanVars >>

TaskNext ==
    \/ AdjustNumTasks
    \/ Divide
    \/ DivideByZero
    \/ AppendTask
    \/ AssertAndReturn

TaskSpec == TaskInit /\ [][TaskNext]_vars

\* ------------------------------------------------------------ properties
Last(seq) == seq[Len(seq)]

RECURSIVE SumPii(_)
SumPii(seq) ==
    IF seq = <<>> THEN 0 ELSE Head(seq).blobs_with_pii + SumPii(Tail(seq))

Bound(x) == "unbound" \notin DOMAIN x

\* positions inside a scan_blob call and at the count of its outcome
InBlob == pc \in {"props", "download", "readall", "decode", "tally"}

\* the failures of the container and blob listings
ListingFailures ==
    {"list_containers failed", "container listing failed", "blob listing failed"}

\* C1: in every container at most scan_depth objects are handed to scan_blob;
\* each of them counts toward the cap whatever its outcome (once counted,
\* scan_count is the number handed over); they are the first objects of the
\* listing, in listing order; and when the walk of a container ends, exactly
\* min(listed, scan_depth) objects were examined, so exactly scan_depth when
\* the listing held more.
C1_CapPerContainer ==
    /\ Len(examined) <= scan_depth
    /\ Len(examined) = scan_count + (IF InBlob THEN 1 ELSE 0)
    /\ examined = [i \in 1..Len(examined) |-> i]
    /\ pc = "container_done" => Len(examined) = Min(bidx, scan_depth)
    /\ (pc = "container_done" /\ bidx > scan_depth) => Len(examined) = scan_depth

\* a container that listed more objects than the cap, walked to its end, with
\* a scanned and an unscanned object among the examined ones
C1_Witness ==
    /\ pc = "container_done"
    /\ scan_depth = MaxDepth
    /\ bidx = scan_depth + 1
    /\ Len(examined) = scan_depth
    /\ container_results.blobs_scanned = 1
    /\ ~ Get(scan_result, "scanned", FALSE)

\* C2: at every point of a container walk, and in every container result kept
\* in the account's result, blobs_with_pii <= blobs_scanned <= scan_depth.
C2_CountersOrdered ==
    /\ Bound(container_results) =>
           /\ container_results.blobs_with_pii <= container_results.blobs_scanned
           /\ container_results.blobs_scanned <= scan_depth
    /\ \A i \in DOMAIN results.pii_findings :
           /\ results.pii_findings[i].blobs_with_pii
                  <= results.pii_findings[i].blobs_scanned
           /\ results.pii_findings[i].blobs_scanned <= scan_depth

\* a returned result holding a container with 1 PII blob among 2 scanned
C2_Witness ==
    /\ pc = "returned"
    /\ scan_depth = 2
    /\ \E i \in DOMAIN ret.pii_findings :
           /\ ret.pii_findings[i].blobs_with_pii = 1
           /\ ret.pii_findings[i].blobs_scanned = 2

\* C3: the pii_found_count of a returned account result is the sum of
\* blobs_with_pii over every container_results dict created for the account,
\* the ones not appended to pii_findings (no PII, or walk aborted) included.
C3_PiiCountIsSum ==
    pc = "returned" => ret.pii_found_count = SumPii(produced)

\* a returned result after two containers, the first appended with one PII
\* blob, the second aborted by a listing failure after one PII blob
C3_Witness ==
    /\ pc = "returned"
    /\ Len(produced) = 2
    /\ Len(ret.pii_findings) = 1
    /\ produced[2].blobs_with_pii = 1
    /\ ~ produced[2].walked
    /\ ret.pii_found_count = 2

\* what C4 says of a blob whose size exceeds the limit, with the given reason
OverLimitSkipped(reason) ==
    (Bound(properties) /\ properties.size > max_size_mb * MB) =>
        /\ scan_result = [scanned |-> FALSE, reason |-> reason,
                          size_mb |-> SizeMb(properties.size)]
        /\ trace = <<"get_blob_properties">>

\* the properties are fetched first, and content only once they are known
PropertiesFirst ==
    /\ (InBlob /\ pc # "props") => trace[1] = "get_blob_properties"
    /\ pc \in {"download", "readall", "decode"} => Bound(properties)
    /\ Bound(content) => Bound(properties)

\* C4 (as stated): the outcome of an object over the size limit is
\* scanned=false with reason "file too large" and the reported size, and
\* neither download nor scanner is invoked for it.
C4_AsStated == PropertiesFirst /\ OverLimitSkipped("file too large")

\* C4 (amended): the same with the reason the code gives, "File too large".
C4_TooLargeSkipped == PropertiesFirst /\ OverLimitSkipped("File too large")

\* a 15 MB object under max_size_mb = 10, skipped
C4_Witness ==
    /\ pc = "tally"
    /\ max_size_mb = 10
    /\ Bound(properties)
    /\ properties.size = 15 * MB
    /\ scan_result.reason = "File too large"

\* what C5 says of content that is not valid UTF-8, with the given reason
UndecodableSkipped(reason) ==
    (Bound(content) /\ ~ content.utf8 /\ pc # "decode") =>
        /\ scan_result = [scanned |-> FALSE, reason |-> reason,
                          size_mb |-> SizeMb(properties.size)]
        /\ ~ Get(scan_result, "has_pii", FALSE)
        /\ Get(scan_result, "findings", <<>>) = <<>>

\* counting an unscanned outcome leaves both blobs_scanned counters alone
UnscannedNotCounted ==
    (pc = "tally" /\ ~ Get(scan_result, "scanned", FALSE)) =>
        /\ container_results'.blobs_scanned = container_results.blobs_scanned
        /\ results'.blobs_scanned = results.blobs_scanned

\* C5 (as stated): undecodable content yields scanned=false, reason
\* "not a text file", no PII, and is not counted in blobs_scanned.
C5_AsStated ==
    [] UndecodableSkipped("not a text file") /\ [][UnscannedNotCounted]_vars

\* C5 (amended): the same with the reason the code gives, "Not a text file".
C5_NotTextSkipped ==
    [] UndecodableSkipped("Not a text file") /\ [][UnscannedNotCounted]_vars

\* an undecodable object within the size limit, counted, with no blob scanned
C5_Witness ==
    /\ pc = "for_blob"
    /\ Bound(content)
    /\ ~ content.utf8
    /\ properties.size <= max_size_mb * MB
    /\ scan_count = 1
    /\ container_results.blobs_scanned = 0

\* C6: a failure of get_blob_properties, download_blob or readall becomes an
\* outcome with scanned=false and a reason; it never reaches the account's
\* handler (only listing failures do); and a walk that ends has examined every
\* listed object within the cap.
C6_BlobErrorsContained ==
    /\ (trace # <<>> /\ Last(trace) = "raised") =>
           /\ ~ Get(scan_result, "scanned", TRUE)
           /\ "reason" \in DOMAIN scan_result
    /\ exc \in {"none"} \cup ListingFailures
    /\ pc = "container_done" => Len(examined) = Min(bidx, scan_depth)

\* the first object's fetch failed and the second is handed to scan_blob
C6_Witness ==
    /\ pc = "props"
    /\ Len(examined) = 2
    /\ Last(trace) = "raised"
    /\ scan_result.reason[1] = "Error: "

\* C7 (the account's part, under Spec): a listing failure makes
\* scan_storage_account print the error and return the results accumulated so
\* far; it does not raise.
C7_PartialResultReturned ==
    /\ [](pc = "returned" => ret = results)
    /\ [][pc = "except" => (pc' = "return" /\ results' = results)]_vars

\* C7 (the run's part, under MainSpec): once main has called
\* scan_storage_account for an account, whatever happens inside that scan,
\* the run goes on to the next account.
C7_RunContinues ==
    [][mpc = "print_account" => mpc' = "for_account"]_vars

\* C8: a run of main ends by raising only after a credential, account listing
\* or key failure; a run that returns gives a summary and one account result
\* per scan_storage_account call, the summary's totals being the sums of the
\* per-account counters.
C8_RunCompletes ==
    /\ mpc = "raised" => mexc \in FatalFailures
    /\ mpc = "returned" =>
           /\ Len(mret.detailed_results) = Len(all_results)
           /\ \A i \in DOMAIN mret.detailed_results :
                  mret.detailed_results[i].kind = "dict"
           /\ mret.summary.storage_accounts_scanned = Len(mret.detailed_results)
           /\ mret.summary.containers_scanned
                  = SumField(mret.detailed_results, "containers_scanned")
           /\ mret.summary.blobs_scanned
                  = SumField(mret.detailed_results, "blobs_scanned")
           /\ mret.summary.blobs_with_pii
                  = SumField(mret.detailed_results, "pii_found_count")

\* C9: the returned result records, for an object that was examined and not
\* scanned, that object with its reason.
C9_ReasonsReported ==
    (pc = "returned" /\ examined # <<>> /\ ~ Get(scan_result, "scanned", FALSE)) =>
        \E i \in DOMAIN ret.pii_findings :
            /\ ret.pii_findings[i].container_name = container_results.container_name
            /\ \E j \in DOMAIN ret.pii_findings[i].findings :
                   /\ ret.pii_findings[i].findings[j].blob_name = Last(examined)
                   /\ "reason" \in DOMAIN ret.pii_findings[i].findings[j]


\* a credential, account listing or key failure is in flight or was raised
FatalRaised == mexc \in FatalFailures

\* C10: after a credential, account listing or key failure main only prints
\* the error and raises: it returns nothing, calls scan_storage_account for no
\* further account, and the failure is what it raises.
C10_FatalIsFatal ==
    /\ [](FatalRaised => (mpc \in {"except", "raised"} /\ ~ Bound(mret)))
    /\ [](mpc = "raised" =>
            (log # <<>> /\ Last(log) = <<"Error in PII scan: ", mexc>>))
    /\ [][FatalRaised =>
            (mexc' = mexc /\ all_results' = all_results /\ mpc' = "raised")]_vars

\* the key retrieval of an account of the second resource group failed, and
\* main has raised
C10_Witness ==
    /\ mpc = "raised"
    /\ mexc \in KeyFailures
    /\ rg_i = 2
    /\ acct_i = 1
    /\ all_results = <<>>


\* red shows at most the first head and the last tail characters of raw,
\* with only "*" between them
ShowsAtMost(red, raw, head, tail) ==
    \E h \in 0..head, t \in 0..tail, k \in 0..Len(raw) :
        red = FirstChars(raw, h) \o Stars(k) \o LastChars(raw, t)

\* C11: every redacted sample differs from the match it redacts, and shows at
\* most the last 4 characters of it (SSN, Credit Card, Phone Number) or at
\* most its first 3 and last 3 characters (the other categories; for an Email
\* this is asked of the local part only, the part the code masks).
C11_RedactionMasks ==
    \A i \in DOMAIN redactions :
        LET r == redactions[i]
        IN  r.out # <<>> =>
                /\ r.out[1] # r.match
                /\ IF r.pattern \in {"SSN", "Credit Card", "Phone Number"}
                   THEN ShowsAtMost(r.out[1], r.match, 0, 4)
                   ELSE IF r.pattern = "Email"
                   THEN ShowsAtMost(SplitAt(r.out[1])[1], SplitAt(r.match)[1], 3, 3)
                   ELSE ShowsAtMost(r.out[1], r.match, 3, 3)

\* the findings of a text with one SSN match and the given sample
OneSsnFinding(sample) ==
    (spc = "returned" /\ text = SsnScenario) =>
        /\ DOMAIN findings = {"SSN"}
        /\ findings["SSN"] = [count |-> 1, samples |-> << sample >>]

\* C12 (as stated): scanning "SSN: 123-45-6789" yields exactly one finding,
\* of category SSN, with the sample *****6789.
C12_AsStated ==
    OneSsnFinding(<< "*", "*", "*", "*", "*", "6", "7", "8", "9" >>)

\* C12 (amended): the same with the sample *******6789, one "*" for each of
\* the 7 characters of 123-45-6789 before the last 4.
C12_SsnScenario ==
    OneSsnFinding(<< "*", "*", "*", "*", "*", "*", "*", "6", "7", "8", "9" >>)

\* "SSN: 123-45-6789" has been scanned
C12_Witness ==
    /\ spc = "returned"
    /\ text = SsnScenario
    /\ "SSN" \in DOMAIN findings

\* C13: the sample of an Email match local@domain has the length of the match
\* and is the match with every character strictly between the first and the
\* last of the local part replaced by "*"; the text of Scenario 1 yields one
\* Email finding with count 1 and sample j******e@example.com.
C13_EmailRedaction ==
    /\ \A i \in DOMAIN redactions :
           LET r == redactions[i]
               local == SplitAt(r.match)[1]
           IN  r.pattern = "Email" =>
                   /\ Len(r.out) = 1
                   /\ Len(r.out[1]) = Len(r.match)
                   /\ \A j \in 1..Len(r.match) :
                          r.out[1][j] = IF j = 1 \/ j >= Len(local)
                                        THEN r.match[j] ELSE "*"
    /\ (spc = "returned" /\ text = EmailScenario) =>
           /\ DOMAIN findings = {"Email"}
           /\ findings["Email"] =
                  [count |-> 1,
                   samples |-> << << "j", "*", "*", "*", "*", "*", "*", "e", "@",
                                     "e", "x", "a", "m", "p", "l", "e", ".", "c",
                                     "o", "m" >> >>]

\* the whole matched substrings of one pattern's occurrences, in order
RawMatches(pattern_name, occ) ==
    LET mine == SelectSeq(occ, LAMBDA o : o.pattern = pattern_name)
    IN  [i \in 1..Len(mine) |-> mine[i].raw]

\* C14: for every pattern, a finding exists exactly when the pattern matches;
\* its count is the number of matches and its samples are the redactions of
\* the first min(3, count) whole matched substrings, in order of occurrence.
C14_FindingsFromMatches ==
    spc = "returned" =>
        \A n \in DOMAIN PatternNames :
            LET name == PatternNames[n]
                raws == RawMatches(name, Occurrences(text))
            IN  IF raws = <<>>
                THEN name \notin DOMAIN findings
                ELSE /\ name \in DOMAIN findings
                     /\ findings[name].count = Len(raws)
                     /\ findings[name].samples
                            = FirstChars(RedactAll(name, raws), 3)

\* C15: in every outcome scan_blob returns, has_pii is true exactly when the
\* findings map is non-empty (both absent from an outcome count as false and
\* empty); an outcome with scanned = false carries a reason and has neither
\* findings nor PII.
C15_OutcomeConsistent ==
    Bound(scan_result) =>
        /\ Get(scan_result, "has_pii", FALSE)
               <=> (DOMAIN Get(scan_result, "findings", <<>>) # {})
        /\ ~ scan_result.scanned =>
               /\ "reason" \in DOMAIN scan_result
               /\ DOMAIN Get(scan_result, "findings", <<>>) = {}
               /\ ~ Get(scan_result, "has_pii", FALSE)

\* a container in which scan_blob returned an outcome with PII and, for a
\* later blob, an outcome with scanned = false
C15_Witness ==
    /\ pc = "tally"
    /\ Bound(scan_result)
    /\ ~ scan_result.scanned
    /\ "reason" \in DOMAIN scan_result
    /\ container_results.blobs_with_pii > 0

\* the container_results dicts whose walk completed
WalkedContainers == SelectSeq(produced, LAMBDA o : o.walked)

\* C16: at every point, pii_findings holds exactly the completely walked
\* containers with blobs_with_pii > 0, in the order of enumeration, each with
\* as many findings as its blobs_with_pii; containers_scanned is the number
\* of completely walked containers, with or without PII.
C16_FindingsAreWalkedContainers ==
    Bound(results) =>
        /\ [i \in DOMAIN results.pii_findings
                |-> Observed(results.pii_findings[i], TRUE)]
               = SelectSeq(WalkedContainers, LAMBDA o : o.blobs_with_pii > 0)
        /\ \A i \in DOMAIN results.pii_findings :
               results.pii_findings[i].blobs_with_pii
                   = Len(results.pii_findings[i].findings)
        /\ results.containers_scanned = Len(WalkedContainers)
        /\ pc = "returned" => ret = results

\* an account result returned after two complete walks, the first of a
\* container without PII and the second of one with PII
C16_Witness ==
    /\ pc = "returned"
    /\ ret.containers_scanned = MaxContainers
    /\ Len(ret.pii_findings) = 1
    /\ produced[1].blobs_with_pii = 0
    /\ ret.pii_findings[1].container_name = produced[MaxContainers].container_name

\* C17: in every account result returned, blobs_scanned is at most
\* containers_scanned * scan_depth, and pii_found_count > 0 only with a
\* non-empty pii_findings.
C17_CountersMatchContainers ==
    pc = "returned" =>
        /\ ret.blobs_scanned <= ret.containers_scanned * scan_depth
        /\ ret.pii_found_count > 0 => ret.pii_findings # <<>>

\* the sum of the points of a task list
RECURSIVE SumPoints(_)
SumPoints(seq) ==
    IF seq = <<>> THEN 0 ELSE Head(seq).points + SumPoints(Tail(seq))

\* C18: a call of generate_tasks with total_points >= 1, num_tasks >= 1 and
\* task_points_min >= 1 or None raises no error, and the list it returns has
\* points that sum to total_points, that differ from each other by at most
\* 1, and that are each at least task_points_min when one is given.
C18_TasksCoverPoints ==
    /\ terr = "none"
    /\ tpc # "raised"
    /\ tpc = "returned" =>
           /\ SumPoints(tasks) = total_points
           /\ \A i, j \in DOMAIN tasks : tasks[i].points - tasks[j].points <= 1
           /\ task_points_min # NoMinimum =>
                  \A i \in DOMAIN tasks : tasks[i].points >= task_points_min[1]

====
